---- MODULE Spec2Model ----
(***************************************************************************)
(* picosnitch: a model of src/picosnitch.py.                               *)
(*                                                                         *)
(* The state is the in-memory Snitch State (the dict `snitch`), the        *)
(* durable file, the capture subprocess with its queue, the locals of      *)
(* loop() and the stack of running signal handlers.  The environment       *)
(* (the OS connection table, the process table, the wall clock, the file   *)
(* system, arriving signals and captured packets) is chosen with \E.       *)
(*                                                                         *)
(* Python strings on which the code only tests equality are TLA+ strings.  *)
(* A process name is a sequence of characters, because update_entry tests  *)
(* it with the substring operator `in`.  A time.ctime() string is the      *)
(* sequence of its tokens, blanks included, because update_entry splits    *)
(* it on whitespace.                                                       *)
(***************************************************************************)
EXTENDS Integers, Sequences, FiniteSets, TLC

VARIABLES
    phase,          \* where loop() is: "init", "running", "exited" (sys.exit),
                    \* or the exception that left it: "ImportError", ...
    snitch,         \* the dict read() returned, mutated in place
    disk,           \* ~/.config/picosnitch/snitch.json
    dirExists,      \* whether ~/.config/picosnitch is a directory
    pcap_proc,      \* loop()'s pcap_proc: "None", "running", "terminated"
    queue,          \* loop()'s queue: NoQueue or the packets waiting in it
    connections,    \* loop()'s connections: the previous snapshot
    counter,        \* loop()'s counter
    clock,          \* the wall clock, an index of ctime
    table,          \* the sockets this machine opens during the run
    handlers,       \* the running terminate() calls, innermost last
    shutdown,       \* what the handlers have done so far
    ticks           \* how many times the body of `while True` was entered

vars == <<phase, snitch, disk, dirExists, pcap_proc, queue, connections,
          counter, clock, table, handlers, shutdown, ticks>>

---------------------------------------------------------------------------
(* Bounds of the model. *)

MaxClock == 3       \* the wall clock takes the values ctime(0) .. ctime(MaxClock)
MaxErrors == 1      \* a tick runs only while Errors stays this short
MaxQueue == 1       \* packets waiting in the queue
MaxTicks == 2       \* passes of the body of `while True` in one run

---------------------------------------------------------------------------
(* Python strings. *)

\* s + t
Concat(s, t) == s \o t

\* `t in s` for two strings: t occurs in s as a substring
IsSubstring(t, s) ==
    \E i \in 0..(Len(s) - Len(t)) : SubSeq(s, i + 1, i + Len(t)) = t

\* `x in xs` for a list
InList(x, xs) == \E i \in 1..Len(xs) : xs[i] = x

\* xs.count(x)
Count(xs, x) == Cardinality({i \in 1..Len(xs) : xs[i] = x})

\* " alternative=", line 116
AlternativeInfix ==
    <<" ", "a", "l", "t", "e", "r", "n", "a", "t", "i", "v", "e", "=">>

\* " (different executable location)", line 101
DifferentLocationSuffix ==
    <<" ", "(", "d", "i", "f", "f", "e", "r", "e", "n", "t", " ",
      "e", "x", "e", "c", "u", "t", "a", "b", "l", "e", " ",
      "l", "o", "c", "a", "t", "i", "o", "n", ")">>

\* str(proc["cmdline"]): the repr of the argument list; one-to-one
StrCmdline(cmdline) == <<"str", cmdline>>

---------------------------------------------------------------------------
(* time.ctime(): "Mon Jan  1 00:00:00 2018".  The clock values, in the     *)
(* order of time: two times of day on a January 1 that is a Monday, the    *)
(* day after it, then January 1 of the next year in which it is a Monday   *)
(* again, and so on.                                                       *)

MondayYears == <<"2018", "2024", "2029", "2035", "2046">>

ctime(n) ==
    LET k == n % 3
        y == n \div 3
    IN  << IF k = 2 THEN "Tue" ELSE "Mon", " ", "Jan", " ", " ",
           IF k = 2 THEN "2" ELSE "1", " ",
           IF k = 1 THEN "12:00:00" ELSE "00:00:00", " ",
           MondayYears[y + 1] >>

IsBlank(tok) == tok = " "

\* s.split(): the tokens between runs of whitespace
Split(s) == SelectSeq(s, LAMBDA tok : ~IsBlank(tok))

\* xs[:n]
Take(xs, n) == SubSeq(xs, 1, IF n < Len(xs) THEN n ELSE Len(xs))

\* ctime.split()[:3], line 121: weekday, month, day of month
DatePart(s) == Take(Split(s), 3)

---------------------------------------------------------------------------
(* The Attribution Engine. *)

\* entry["cmdlines"].append(x) unless it is there, lines 117-120
AppendAlways(xs, x) == Append(xs, x)
AppendOrReplace(xs, x) == IF InList(x, xs) THEN xs ELSE <<x>>
AppendIfNovel(xs, x) == IF InList(x, xs) THEN xs ELSE Append(xs, x)

\* lines 115-116
AlternativeName(name, procname) ==
    IF IsSubstring(procname, name)
    THEN name
    ELSE Concat(Concat(name, AlternativeInfix), procname)

\* lines 121-122
DaysSeen(entry, now) ==
    IF DatePart(now) # DatePart(entry["last seen"])
    THEN entry["days seen"] + 1
    ELSE entry["days seen"]

\* lines 99-101: the Names list after the append and the suffixing
NamesAppend_NoSuffix(names, procname) == Append(names, procname)
NamesAppend(names, procname) ==
    LET appended == Append(names, procname)
    IN  IF Count(appended, procname) > 1
        THEN [appended EXCEPT ![Len(appended)] =
                                  Concat(@, DifferentLocationSuffix)]
        ELSE appended

\* lines 102-109
FreshEntry(proc, raddr_ip, now) ==
    [ x \in {"name", "cmdlines", "first seen", "last seen", "days seen",
             "remote addresses"} |->
        CASE x = "name" -> proc.name
          [] x = "cmdlines" -> <<StrCmdline(proc.cmdline)>>
          [] x = "first seen" -> now
          [] x = "last seen" -> now
          [] x = "days seen" -> 1
          [] x = "remote addresses" -> <<raddr_ip>> ]

\* d[k] = v for a dict d
DictSet(d, k, v) == [x \in DOMAIN d \cup {k} |-> IF x = k THEN v ELSE d[x]]

new_entry_IfAbsent(s, proc, raddr_ip, now) ==
    IF proc.exe \in DOMAIN s["Processes"]
    THEN s
    ELSE [s EXCEPT
            !["Executables"] = Append(@, proc.exe),
            !["Names"] = NamesAppend(@, proc.name),
            !["Processes"] = DictSet(@, proc.exe,
                                     FreshEntry(proc, raddr_ip, now))]
new_entry(s, proc, raddr_ip, now) ==
    [s EXCEPT
        !["Executables"] = Append(@, proc.exe),
        !["Names"] = NamesAppend(@, proc.name),
        !["Processes"] = DictSet(@, proc.exe, FreshEntry(proc, raddr_ip, now))]

UpdatedEntry(entry, proc, raddr_ip, now) ==
    [entry EXCEPT
        !["name"] = AlternativeName(@, proc.name),
        !["cmdlines"] = AppendIfNovel(@, StrCmdline(proc.cmdline)),
        !["remote addresses"] = AppendIfNovel(@, raddr_ip),
        !["days seen"] = DaysSeen(entry, now),
        !["last seen"] = now]

update_entry_Relisting(s, proc, raddr_ip, now) ==
    [s EXCEPT !["Processes"][proc.exe] = UpdatedEntry(@, proc, raddr_ip, now),
              !["Executables"] = Append(@, proc.exe)]
update_entry(s, proc, raddr_ip, now) ==
    [s EXCEPT !["Processes"][proc.exe] = UpdatedEntry(@, proc, raddr_ip, now)]

---------------------------------------------------------------------------
(* The environment: addresses, the OS connection table, the process table. *)

PrivateIPs == {"10.0.0.1", "10.0.0.5", "127.0.0.1"}

\* ipaddress.ip_address(ip).is_private
IsPrivate_Never(ip) == FALSE
IsPrivate(ip) == ip \in PrivateIPs

\* conn.raddr of a socket with no remote end: the empty tuple, which is falsy
NoAddr == [ip |-> "", port |-> 0]

Addr(ip, port) == [ip |-> ip, port |-> port]

\* line 76
IsPublicConn(conn) == conn.raddr # NoAddr /\ ~IsPrivate(conn.raddr.ip)

\* One psutil sconn; `repr` is str(conn).
AllConns ==
    { [laddr |-> Addr("10.0.0.5", 1), raddr |-> Addr("93.184.216.34", 443),
       pid |-> 1, repr |-> "sconn(:1 -> 93.184.216.34:443, pid=1)"],
      [laddr |-> Addr("10.0.0.5", 2), raddr |-> Addr("8.8.8.8", 53),
       pid |-> 2, repr |-> "sconn(:2 -> 8.8.8.8:53, pid=2)"],
      [laddr |-> Addr("10.0.0.5", 3), raddr |-> Addr("8.8.8.8", 53),
       pid |-> 3, repr |-> "sconn(:3 -> 8.8.8.8:53, pid=3)"],
      [laddr |-> Addr("10.0.0.5", 4), raddr |-> Addr("10.0.0.1", 22),
       pid |-> 1, repr |-> "sconn(:4 -> 10.0.0.1:22, pid=1)"],
      [laddr |-> Addr("10.0.0.5", 5), raddr |-> NoAddr,
       pid |-> 2, repr |-> "sconn(:5 listening, pid=2)"] }

\* a socket between two processes of the machine itself
LoopbackConn ==
    [laddr |-> Addr("127.0.0.1", 7), raddr |-> Addr("127.0.0.1", 631),
     pid |-> 2, repr |-> "sconn(127.0.0.1:7 -> 127.0.0.1:631, pid=2)"]

\* the sockets of a machine on which one process talks to the internet
FewConns == {conn \in AllConns : conn.pid = 1 \/ ~IsPublicConn(conn)}

\* the sockets with a public remote address
PublicConns == {conn \in AllConns : IsPublicConn(conn)}

\* psutil.net_connections(kind='inet'): any set of the machine's sockets
Snapshots == SUBSET table

\* the orders in which `for conn in current - last` can visit a set
Orders(S) ==
    {o \in [1..Cardinality(S) -> S] : \A i, j \in 1..Cardinality(S) :
                                          o[i] = o[j] => i = j}

\* str(n) for the small numbers of the model
DecStr(n) == <<"0", "1", "2", "3", "4", "5", "6", "7", "8", "9">>[n + 1]

\* psutil.Process(pid).as_dict(attrs=["name", "exe", "cmdline", "pid"])
\* pids 1 and 3 run the same executable under two names, one a substring of
\* the other; pids 1 and 2 run two executables under one name.
as_dict(pid) ==
    CASE pid = 1 -> [name |-> <<"x">>, exe |-> "/a", cmdline |-> <<"x">>,
                     pid |-> 1]
      [] pid = 2 -> [name |-> <<"x">>, exe |-> "/b", cmdline |-> <<"x">>,
                     pid |-> 2]
      [] pid = 3 -> [name |-> <<"x", "y">>, exe |-> "/a",
                     cmdline |-> <<"xy", "-v">>, pid |-> 3]

\* line 72; the pid "" equals no connection's pid
InitialProc == [name |-> <<>>, exe |-> "", cmdline |-> <<>>, pid |-> -1]

---------------------------------------------------------------------------
(* poll, lines 70-94. *)

\* pcap_dict is a dict from local port to packet: its items in insertion order
DictPop(d, k) == SelectSeq(d, LAMBDA item : item[1] # k)

DictPut(d, k, v) ==
    IF \E i \in 1..Len(d) : d[i][1] = k
    THEN [i \in 1..Len(d) |-> IF d[i][1] = k THEN <<k, v>> ELSE d[i]]
    ELSE Append(d, <<k, v>>)

\* lines 84-89: ctime + " " + str(conn) + (str(pid) or the fixed text)
PollingError(now, conn, proc) ==
    Concat(now, <<" ", conn.repr,
                  IF conn.pid = proc.pid THEN DecStr(proc.pid)
                  ELSE "{process no longer exists}">>)

\* line 92: ctime + " " + str(port)
MissedError(now, port) == Concat(now, <<" ", DecStr(port)>>)

\* One pass of the body of the for loop of lines 74-90 over conn.  st holds
\* snitch, pcap_dict and the local proc; psutil.Process raises for the
\* connections in failed.
poll_conn_PopFirst(st, conn, failed, now) ==
    LET popped == DictPop(st.pcap_dict, conn.laddr.port)
    IN  IF IsPublicConn(conn)
        THEN IF conn \in failed
             THEN [snitch |-> [st.snitch EXCEPT !["Errors"] =
                                 Append(@, PollingError(now, conn, st.proc))],
                   pcap_dict |-> popped,
                   proc |-> st.proc]
             ELSE LET proc == as_dict(conn.pid)
                  IN  [snitch |->
                         IF proc.exe \notin DOMAIN st.snitch["Processes"]
                         THEN new_entry(st.snitch, proc, conn.raddr.ip, now)
                         ELSE update_entry(st.snitch, proc, conn.raddr.ip, now),
                       pcap_dict |-> popped,
                       proc |-> proc]
        ELSE [st EXCEPT !.pcap_dict = popped]
poll_conn(st, conn, failed, now) ==
    IF IsPublicConn(conn)
    THEN LET popped == DictPop(st.pcap_dict, conn.laddr.port)
         IN  IF conn \in failed
             THEN [snitch |-> [st.snitch EXCEPT !["Errors"] =
                                 Append(@, PollingError(now, conn, st.proc))],
                   pcap_dict |-> popped,
                   proc |-> st.proc]
             ELSE LET proc == as_dict(conn.pid)
                  IN  [snitch |->
                         IF proc.exe \notin DOMAIN st.snitch["Processes"]
                         THEN new_entry(st.snitch, proc, conn.raddr.ip, now)
                         ELSE update_entry(st.snitch, proc, conn.raddr.ip, now),
                       pcap_dict |-> popped,
                       proc |-> proc]
    ELSE st

\* the for loop with the try around it instead of inside it
RECURSIVE poll_conns_TryAroundLoop(_, _, _, _, _)
poll_conns_TryAroundLoop(st, order, i, failed, now) ==
    IF i > Len(order)
    THEN st
    ELSE IF IsPublicConn(order[i]) /\ order[i] \in failed
         THEN poll_conn(st, order[i], failed, now)
         ELSE poll_conns_TryAroundLoop(poll_conn(st, order[i], failed, now),
                                       order, i + 1, failed, now)

\* the for loop of lines 74-90
RECURSIVE poll_conns(_, _, _, _, _)
poll_conns(st, order, i, failed, now) ==
    IF i > Len(order)
    THEN st
    ELSE poll_conns(poll_conn(st, order[i], failed, now), order, i + 1,
                    failed, now)

\* lines 91-93
RECURSIVE poll_missed(_, _, _, _)
poll_missed(s, pcap_dict, i, now) ==
    IF i > Len(pcap_dict)
    THEN s
    ELSE poll_missed([s EXCEPT !["Errors"] =
                         Append(@, MissedError(now, pcap_dict[i][1]))],
                     pcap_dict, i + 1, now)

\* poll(snitch, last_connections, pcap_dict) when the clock reads `now`, the
\* OS table is `current`, the new connections are visited in `order` and the
\* owners of `failed` cannot be looked up.
poll(s, last_connections, pcap_dict, now, current, order, failed) ==
    LET st == poll_conns([snitch |-> s, pcap_dict |-> pcap_dict,
                          proc |-> InitialProc], order, 1, failed, now)
    IN  [snitch |-> poll_missed(st.snitch, st.pcap_dict, 1, now),
         connections |-> current]

---------------------------------------------------------------------------
(* The durable state file: read, lines 36-49, and write, lines 52-60.      *)
(* json.dump(sort_keys=True) writes an object as its members in key order, *)
(* so the text of an object is given by the set of its (key, value)        *)
(* members; lists, strings and numbers are written as they are.            *)

\* a dict of lists, strings and numbers
JsonObject(d) == {<<k, d[k]>> : k \in DOMAIN d}

\* the dict of dicts snitch["Processes"]
JsonProcesses(procs) == {<<exe, JsonObject(procs[exe])>> : exe \in DOMAIN procs}

\* json.dump(snitch, ..., sort_keys=True), line 58
JsonDump_NoErrors(s) ==
    { <<"Config", JsonObject(s["Config"])>>,
      <<"Errors", <<>> >>,
      <<"Executables", s["Executables"]>>,
      <<"Names", s["Names"]>>,
      <<"Processes", JsonProcesses(s["Processes"])>> }
JsonDump(s) ==
    { <<"Config", JsonObject(s["Config"])>>,
      <<"Errors", s["Errors"]>>,
      <<"Executables", s["Executables"]>>,
      <<"Names", s["Names"]>>,
      <<"Processes", JsonProcesses(s["Processes"])>> }

JsonMember(members, k) == (CHOOSE m \in members : m[1] = k)[2]

JsonDict(members) ==
    [k \in {m[1] : m \in members} |-> JsonMember(members, k)]

LoadProcesses(members) ==
    [exe \in {m[1] : m \in members} |-> JsonDict(JsonMember(members, exe))]

\* json.load(json_file), line 40
JsonLoad(text) ==
    [ k \in {m[1] : m \in text} |->
        CASE k = "Config" -> JsonDict(JsonMember(text, k))
          [] k = "Processes" -> LoadProcesses(JsonMember(text, k))
          [] OTHER -> JsonMember(text, k) ]

\* Intervals are in tenths of a second: 0.2 s and 600 s, line 44.
DefaultPollingInterval == 2
DefaultWriteInterval == 6000

Config(polling, writing, pcap) ==
    [ k \in {"Polling interval", "Write interval", "Use pcap"} |->
        CASE k = "Polling interval" -> polling
          [] k = "Write interval" -> writing
          [] k = "Use pcap" -> pcap ]

State(config) ==
    [ k \in {"Config", "Errors", "Executables", "Names", "Processes"} |->
        CASE k = "Config" -> config
          [] k = "Processes" -> [x \in {} |-> x]
          [] OTHER -> <<>> ]

\* lines 43-49
DefaultState ==
    State(Config(DefaultPollingInterval, DefaultWriteInterval, FALSE))

NoFile == [exists |-> FALSE, text |-> {}]

File(text) == [exists |-> TRUE, text |-> text]

\* a file that open("w") truncated and json.dump did not finish
TruncatedFile == File({})

\* read(), lines 36-49
read(file) == IF file.exists THEN JsonLoad(file.text) ELSE DefaultState

\* the `raised` of a call that returned normally
NotRaised == "nothing"

\* What the file system does to one write(): nothing wrong, makedirs fails,
\* open fails, or json.dump fails after the file was opened.
FsOutcomes == {"ok", "makedirs fails", "open fails", "dump fails"}

\* The outcomes one step can meet: makedirs is called only when the directory
\* is missing, and nothing is written when no write is due.
FsFor(due, dir) ==
    IF ~due THEN {"ok"}
    ELSE IF dir THEN FsOutcomes \ {"makedirs fails"} ELSE FsOutcomes

\* Lines 56-60 with the directory in place.
write_file(s, file, fs) ==
    CASE fs = "open fails" -> file
      [] fs = "dump fails" -> TruncatedFile
      [] OTHER -> File(JsonDump(s))

\* write(snitch), lines 52-60: the file and the directory afterwards, and
\* whether the call raised.  os.makedirs, line 55, is outside the try.
write(s, file, dir, fs) ==
    IF ~dir /\ fs = "makedirs fails"
    THEN [raised |-> "OSError", disk |-> file, dirExists |-> dir]
    ELSE [raised |-> NotRaised, disk |-> write_file(s, file, fs),
          dirExists |-> TRUE]

---------------------------------------------------------------------------
(* The capture subprocess, init_pcap, lines 162-200. *)

Packets ==
    { [src |-> "10.0.0.5", dst |-> "93.184.216.34", sport |-> 1, dport |-> 443],
      [src |-> "8.8.8.8", dst |-> "10.0.0.5", sport |-> 53, dport |-> 6],
      [src |-> "10.0.0.5", dst |-> "10.0.0.1", sport |-> 4, dport |-> 22] }

\* lines 183-189
filter_packet(packet) == IsPrivate(packet.src) # IsPrivate(packet.dst)

\* lines 167-181, for a packet that filter_packet let through
parse_packet(packet) ==
    IF IsPrivate(packet.src)
    THEN [direction |-> "outgoing", laddr_ip |-> packet.src,
          laddr_port |-> packet.sport, raddr_ip |-> packet.dst]
    ELSE [direction |-> "incoming", laddr_ip |-> packet.dst,
          laddr_port |-> packet.dport, raddr_ip |-> packet.src]

NoQueue == [is_none |-> TRUE, items |-> <<>>]

Queue(items) == [is_none |-> FALSE, items |-> items]

\* init_pcap(snitch): raises when scapy cannot be imported, lines 164-165;
\* starts the subprocess only when the module runs as __main__, line 194.
init_pcap(s, scapy, is_main) ==
    IF s["Config"]["Use pcap"]
    THEN IF ~scapy
         THEN [raised |-> "ImportError", pcap_proc |-> "None",
               queue |-> NoQueue]
         ELSE IF is_main
              THEN [raised |-> NotRaised, pcap_proc |-> "running",
                    queue |-> Queue(<<>>)]
              ELSE [raised |-> NotRaised, pcap_proc |-> "None",
                    queue |-> NoQueue]
    ELSE [raised |-> NotRaised, pcap_proc |-> "None", queue |-> NoQueue]

---------------------------------------------------------------------------
(* loop, lines 126-150. *)

\* The names loop() can resolve: its locals and the globals of the module.
LoopLocals ==
    {"snitch", "pcap_proc", "queue", "pcap_dict", "connections",
     "polling_interval", "write_counter", "counter", "known_ports", "packet"}

ModuleGlobals ==
    {"ipaddress", "json", "multiprocessing", "os", "signal", "sys", "time",
     "typing", "plyer", "psutil", "read", "write", "terminate", "poll",
     "new_entry", "update_entry", "loop", "toast", "init_pcap", "main"}

IsBound(name) == name \in LoopLocals \cup ModuleGlobals

\* the name on which line 141 calls get()
QueueGetName == "q"

\* line 134: int(Write interval / Polling interval)
write_counter(s) ==
    s["Config"]["Write interval"] \div s["Config"]["Polling interval"]

\* line 139
known_ports(conns) == {conn.laddr.port : conn \in conns}

\* lines 140-143: the queue is emptied into pcap_dict; evaluating an unbound
\* name raises NameError.
RECURSIVE drain(_, _, _)
drain(items, ports, pcap_dict) ==
    IF items = <<>>
    THEN [raised |-> NotRaised, pcap_dict |-> pcap_dict, items |-> items]
    ELSE IF ~IsBound(QueueGetName)
         THEN [raised |-> "NameError", pcap_dict |-> pcap_dict,
               items |-> items]
         ELSE LET packet == Head(items)
              IN  drain(Tail(items), ports,
                        IF packet.laddr_port \notin ports
                        THEN DictPut(pcap_dict, packet.laddr_port, packet)
                        ELSE pcap_dict)

\* lines 137-143
candidates(q, conns) ==
    IF q.is_none
    THEN [raised |-> NotRaised, pcap_dict |-> <<>>, items |-> q.items]
    ELSE drain(q.items, known_ports(conns), <<>>)

\* lines 146-150: the periodic flush and the tick counter
flush(s, n, file, dir, fs) ==
    IF n >= write_counter(s)
    THEN LET w == write(s, file, dir, fs)
         IN  [raised |-> w.raised, disk |-> w.disk, dirExists |-> w.dirExists,
              counter |-> IF w.raised # NotRaised THEN n ELSE 0]
    ELSE [raised |-> NotRaised, disk |-> file, dirExists |-> dir,
          counter |-> n + 1]

\* One pass of the body of `while True`, lines 137-150.
loop_body(s, q, conns, n, file, dir, now, current, order, failed, fs) ==
    LET c == candidates(q, conns)
    IN  IF c.raised # NotRaised
        THEN [raised |-> c.raised, snitch |-> s, queue |-> q,
              connections |-> conns, counter |-> n, disk |-> file,
              dirExists |-> dir]
        ELSE LET p == poll(s, conns, c.pcap_dict, now, current, order, failed)
                 f == flush(p.snitch, n, file, dir, fs)
             IN  [raised |-> f.raised, snitch |-> p.snitch,
                  queue |-> [q EXCEPT !.items = c.items],
                  connections |-> p.connections, counter |-> f.counter,
                  disk |-> f.disk, dirExists |-> f.dirExists]

terminate_ProcessFirst == <<"process.terminate", "write", "sys.exit">>

\* terminate(snitch, process), lines 63-67: its statements in order
terminate == <<"write", "process.terminate", "sys.exit">>

NoShutdown == [writes |-> 0, terminates |-> 0]

---------------------------------------------------------------------------
(* The state machine. *)

\* a configuration that flushes every other tick and turns the capture on
FastConfig == Config(DefaultPollingInterval, DefaultPollingInterval, TRUE)

Init ==
    /\ phase = "init"
    /\ snitch = DefaultState
    /\ \E start \in { [dir |-> FALSE, file |-> NoFile],
                      [dir |-> TRUE, file |-> NoFile],
                      [dir |-> TRUE, file |-> File(JsonDump(State(FastConfig)))] } :
          /\ disk = start.file
          /\ dirExists = start.dir
    /\ pcap_proc = "None"
    /\ queue = NoQueue
    /\ connections = {}
    /\ counter = 0
    /\ clock = 0
    /\ table = FewConns
    /\ handlers = <<>>
    /\ shutdown = NoShutdown
    /\ ticks = 0

\* lines 127-135: read the state, start the capture, install the handlers
Start ==
    /\ phase = "init"
    /\ \E scapy \in BOOLEAN, is_main \in BOOLEAN :
          LET s == read(disk)
              p == init_pcap(s, scapy, is_main)
          IN  /\ snitch' = s
              /\ phase' = IF p.raised # NotRaised THEN p.raised ELSE "running"
              /\ pcap_proc' = p.pcap_proc
              /\ queue' = p.queue
    /\ connections' = {}
    /\ counter' = 0
    /\ UNCHANGED <<disk, dirExists, clock, table, handlers, shutdown, ticks>>

\* lines 136-150: one tick, run while no handler is on the stack
Tick ==
    /\ phase = "running"
    /\ handlers = <<>>
    /\ ticks < MaxTicks
    /\ ticks' = ticks + 1
    /\ \E now \in clock..MaxClock, current \in Snapshots :
       \E order \in Orders(current \ connections),
          failed \in SUBSET {conn \in current \ connections : IsPublicConn(conn)},
          fs \in FsFor(counter >= write_counter(snitch), dirExists) :
       \E r \in {loop_body(snitch, queue, connections, counter, disk,
                           dirExists, ctime(now), current, order, failed, fs)} :
              /\ Len(r.snitch["Errors"]) <= MaxErrors
              /\ phase' = IF r.raised # NotRaised THEN r.raised ELSE "running"
              /\ snitch' = r.snitch
              /\ queue' = r.queue
              /\ connections' = r.connections
              /\ counter' = r.counter
              /\ disk' = r.disk
              /\ dirExists' = r.dirExists
              /\ clock' = now
    /\ UNCHANGED <<pcap_proc, table, handlers, shutdown>>

\* sniffer, lines 191-192: the subprocess puts one parsed packet on the queue
Sniff ==
    /\ phase = "running"
    /\ pcap_proc = "running"
    /\ Len(queue.items) < MaxQueue
    /\ \E packet \in Packets :
          /\ filter_packet(packet)
          /\ queue' = [queue EXCEPT !.items = Append(@, parse_packet(packet))]
    /\ UNCHANGED <<phase, snitch, disk, dirExists, pcap_proc, connections,
                   counter, clock, table, handlers, shutdown, ticks>>

\* lines 130-131: SIGTERM or SIGINT arrives and Python calls the handler, also
\* while the handler of the other signal has not finished.  A frame of
\* `handlers` is the signal and the index of the statement of terminate() it
\* runs next.
Signals == {"SIGTERM", "SIGINT"}

Signal ==
    /\ phase = "running"
    /\ \E sig \in Signals :
          /\ \A i \in 1..Len(handlers) : handlers[i].sig # sig
          /\ handlers' = Append(handlers, [sig |-> sig, pc |-> 1])
    /\ UNCHANGED <<phase, snitch, disk, dirExists, pcap_proc, queue,
                   connections, counter, clock, table, shutdown, ticks>>

\* the innermost handler runs its next statement
Top == handlers[Len(handlers)].pc

Advance == [handlers EXCEPT ![Len(handlers)].pc = @ + 1]

HandlerWrite ==
    /\ phase = "running"
    /\ handlers # <<>>
    /\ terminate[Top] = "write"
    /\ \E fs \in FsFor(TRUE, dirExists) :
       \E w \in {write(snitch, disk, dirExists, fs)} :
              /\ disk' = w.disk
              /\ dirExists' = w.dirExists
              /\ phase' = IF w.raised # NotRaised THEN w.raised ELSE "running"
              /\ handlers' = IF w.raised # NotRaised THEN <<>> ELSE Advance
              /\ shutdown' = IF w.raised # NotRaised THEN shutdown
                             ELSE [shutdown EXCEPT !.writes = @ + 1]
    /\ UNCHANGED <<snitch, pcap_proc, queue, connections, counter, clock,
                   table, ticks>>

HandlerTerminate ==
    /\ phase = "running"
    /\ handlers # <<>>
    /\ terminate[Top] = "process.terminate"
    /\ pcap_proc' = IF pcap_proc = "None" THEN "None" ELSE "terminated"
    /\ shutdown' = IF pcap_proc = "None" THEN shutdown
                   ELSE [shutdown EXCEPT !.terminates = @ + 1]
    /\ handlers' = Advance
    /\ UNCHANGED <<phase, snitch, disk, dirExists, queue, connections,
                   counter, clock, table, ticks>>

HandlerExit ==
    /\ phase = "running"
    /\ handlers # <<>>
    /\ terminate[Top] = "sys.exit"
    /\ phase' = "exited"
    /\ handlers' = <<>>
    /\ UNCHANGED <<snitch, disk, dirExists, pcap_proc, queue, connections,
                   counter, clock, table, shutdown, ticks>>

Next ==
    \/ Start
    \/ Tick
    \/ Sniff
    \/ Signal
    \/ HandlerWrite
    \/ HandlerTerminate
    \/ HandlerExit

Spec == Init /\ [][Next]_vars

---------------------------------------------------------------------------
(* The Connection Poller alone: poll applied tick after tick to a fresh    *)
(* state, on a machine whose sockets all have public remote ends.          *)

InitPoll ==
    /\ phase = "running"
    /\ snitch = DefaultState
    /\ disk = NoFile
    /\ dirExists = FALSE
    /\ pcap_proc = "None"
    /\ queue = NoQueue
    /\ connections = {}
    /\ counter = 0
    /\ clock = 0
    /\ table = PublicConns
    /\ handlers = <<>>
    /\ shutdown = NoShutdown
    /\ ticks = 0

\* line 144: connections = poll(snitch, connections, pcap_dict)
PollTick_NoDiff ==
    /\ ticks < MaxTicks
    /\ ticks' = ticks + 1
    /\ \E now \in clock..MaxClock, current \in Snapshots :
       \E order \in Orders(current),
          failed \in SUBSET {conn \in current : IsPublicConn(conn)} :
       \E r \in {poll(snitch, connections, <<>>, ctime(now), current, order,
                      failed)} :
              /\ Len(r.snitch["Errors"]) <= MaxErrors
              /\ snitch' = r.snitch
              /\ connections' = r.connections
              /\ clock' = now
    /\ UNCHANGED <<phase, disk, dirExists, pcap_proc, queue, counter, table,
                   handlers, shutdown>>
PollTick ==
    /\ ticks < MaxTicks
    /\ ticks' = ticks + 1
    /\ \E now \in clock..MaxClock, current \in Snapshots :
       \E order \in Orders(current \ connections),
          failed \in SUBSET {conn \in current \ connections : IsPublicConn(conn)} :
       \E r \in {poll(snitch, connections, <<>>, ctime(now), current, order,
                      failed)} :
              /\ Len(r.snitch["Errors"]) <= MaxErrors
              /\ snitch' = r.snitch
              /\ connections' = r.connections
              /\ clock' = now
    /\ UNCHANGED <<phase, disk, dirExists, pcap_proc, queue, counter, table,
                   handlers, shutdown>>

NextPoll == PollTick

SpecPoll == InitPoll /\ [][NextPoll]_vars

---------------------------------------------------------------------------
(* The Connection Poller on a machine with sockets of every kind: two with *)
(* public remote ends, owned by two executables, one with a private remote *)
(* end and one that listens.                                               *)

MixedConns == {conn \in AllConns : conn.laddr.port # 3}

InitMixed ==
    /\ phase = "running"
    /\ snitch = DefaultState
    /\ disk = NoFile
    /\ dirExists = FALSE
    /\ pcap_proc = "None"
    /\ queue = NoQueue
    /\ connections = {}
    /\ counter = 0
    /\ clock = 0
    /\ table = MixedConns
    /\ handlers = <<>>
    /\ shutdown = NoShutdown
    /\ ticks = 0

SpecMixed == InitMixed /\ [][NextPoll]_vars

---------------------------------------------------------------------------
(* The Connection Poller on a machine where one process holds two sockets  *)
(* with public remote ends.                                                *)

SecondConn ==
    [laddr |-> Addr("10.0.0.5", 8), raddr |-> Addr("8.8.8.8", 443),
     pid |-> 1, repr |-> "sconn(:8 -> 8.8.8.8:443, pid=1)"]

SamePidConns == {conn \in PublicConns : conn.pid # 3} \cup {SecondConn}

InitSamePid ==
    /\ phase = "running"
    /\ snitch = DefaultState
    /\ disk = NoFile
    /\ dirExists = FALSE
    /\ pcap_proc = "None"
    /\ queue = NoQueue
    /\ connections = {}
    /\ counter = 0
    /\ clock = 0
    /\ table = SamePidConns
    /\ handlers = <<>>
    /\ shutdown = NoShutdown
    /\ ticks = 0

SpecSamePid == InitSamePid /\ [][NextPoll]_vars

---------------------------------------------------------------------------
(* A termination signal in the middle of a tick.  Python runs the handler  *)
(* between two bytecodes of the main thread, so terminate() can find       *)
(* snitch as any statement of new_entry or update_entry left it.           *)

\* new_entry after its first k statements: line 98, line 99, lines 100-101,
\* lines 102-109
new_entry_upto(s, proc, raddr_ip, now, k) ==
    [s EXCEPT
        !["Executables"] = IF k >= 1 THEN Append(@, proc.exe) ELSE @,
        !["Names"] = IF k >= 3 THEN NamesAppend(@, proc.name)
                     ELSE IF k = 2 THEN Append(@, proc.name) ELSE @,
        !["Processes"] = IF k >= 4
                         THEN DictSet(@, proc.exe,
                                      FreshEntry(proc, raddr_ip, now))
                         ELSE @]

\* update_entry after its first k statements: lines 115-116, 117-118,
\* 119-120, 121-122, 123
update_entry_upto(s, proc, raddr_ip, now, k) ==
    LET entry == s["Processes"][proc.exe]
    IN  [s EXCEPT !["Processes"][proc.exe] =
          [entry EXCEPT
             !["name"] = IF k >= 1 THEN AlternativeName(@, proc.name) ELSE @,
             !["cmdlines"] = IF k >= 2
                             THEN AppendIfNovel(@, StrCmdline(proc.cmdline))
                             ELSE @,
             !["remote addresses"] = IF k >= 3 THEN AppendIfNovel(@, raddr_ip)
                                     ELSE @,
             !["days seen"] = IF k >= 4 THEN DaysSeen(entry, now) ELSE @,
             !["last seen"] = IF k >= 5 THEN now ELSE @]]

\* the statements of the operation that lines 79-82 call for conn
Statements(s, conn, failed) ==
    IF ~IsPublicConn(conn) \/ conn \in failed THEN 0
    ELSE IF as_dict(conn.pid).exe \notin DOMAIN s["Processes"] THEN 4 ELSE 5

\* snitch when the body of the for loop of lines 74-90 is interrupted in its
\* pass over conn after k statements of new_entry or update_entry
interrupted(s, conn, failed, now, k) ==
    IF ~IsPublicConn(conn) \/ conn \in failed
    THEN s
    ELSE LET proc == as_dict(conn.pid)
         IN  IF proc.exe \notin DOMAIN s["Processes"]
             THEN new_entry_upto(s, proc, conn.raddr.ip, now, k)
             ELSE update_entry_upto(s, proc, conn.raddr.ip, now, k)

\* A tick of a running loop.
RunningTick == phase = "running" /\ PollTick

\* SIGTERM or SIGINT arrives while poll is in its i-th pass of the for loop,
\* k statements into new_entry or update_entry: terminate() writes snitch as
\* it is, and sys.exit leaves poll and the loop (SystemExit is not an
\* Exception, so the except of line 83 lets it through).
InterruptedTick ==
    /\ phase = "running"
    /\ ticks < MaxTicks
    /\ ticks' = ticks + 1
    /\ \E now \in clock..MaxClock, current \in Snapshots :
       \E order \in Orders(current \ connections),
          failed \in SUBSET {conn \in current \ connections : IsPublicConn(conn)},
          fs \in FsFor(TRUE, dirExists) :
       \E i \in 1..Len(order) :
          LET st == poll_conns([snitch |-> snitch, pcap_dict |-> <<>>,
                                proc |-> InitialProc],
                               SubSeq(order, 1, i - 1), 1, failed, ctime(now))
          IN  \E k \in 0..Statements(st.snitch, order[i], failed) :
              \E partial \in {interrupted(st.snitch, order[i], failed,
                                           ctime(now), k)} :
              \E w \in {write(partial, disk, dirExists, fs)} :
                  /\ Len(partial["Errors"]) <= MaxErrors
                  /\ snitch' = partial
                  /\ disk' = w.disk
                  /\ dirExists' = w.dirExists
                  /\ phase' = IF w.raised # NotRaised THEN w.raised
                              ELSE "exited"
                  /\ shutdown' = IF w.raised # NotRaised THEN shutdown
                                 ELSE [shutdown EXCEPT !.writes = @ + 1]
                  /\ clock' = now
    /\ UNCHANGED <<pcap_proc, queue, connections, counter, table, handlers>>

NextInterrupt ==
    \/ RunningTick
    \/ InterruptedTick

SpecInterrupt == InitPoll /\ [][NextInterrupt]_vars

---------------------------------------------------------------------------
(* Properties. *)

Pids == {conn.pid : conn \in AllConns}

PublicIPs == {conn.raddr.ip : conn \in PublicConns}

Processes == snitch["Processes"]

Errors == snitch["Errors"]

Names == snitch["Names"]

\* the entries that s2 has appended to the list xs1 of s1
Added(xs1, xs2) == SubSeq(xs2, Len(xs1) + 1, Len(xs2))

IsPrefix(xs1, xs2) ==
    Len(xs1) <= Len(xs2) /\ SubSeq(xs2, 1, Len(xs1)) = xs1

\* An Errors entry is the ten tokens of ctime, a blank and the text.
ErrorTime(e) == SubSeq(e, 1, Len(ctime(0)))

ErrorText(e) == e[Len(ctime(0)) + 2]

IsMissedError(e) == Len(e) = Len(ctime(0)) + 2

IsPollingError(e) == Len(e) = Len(ctime(0)) + 3

\* the calendar date of a ctime string: weekday, month, day and year
CalendarDate(s) == <<Split(s)[1], Split(s)[2], Split(s)[3], Split(s)[5]>>

\* C1: every entry has daysSeen >= 1, and an Update adds exactly 1 to
\* daysSeen if and only if the calendar date of its timestamp (the year
\* included, the time of day ignored) differs from the calendar date of the
\* stored lastSeen; in every other Update daysSeen is unchanged.
C1_DaysSeenPerCalendarDate ==
    /\ \A exe \in DOMAIN Processes : Processes[exe]["days seen"] >= 1
    /\ \A pid \in Pids, ip \in PublicIPs, now \in clock..MaxClock :
          LET proc == as_dict(pid)
          IN  proc.exe \in DOMAIN Processes =>
                LET before == Processes[proc.exe]
                    after == update_entry(snitch, proc, ip,
                                          ctime(now))["Processes"][proc.exe]
                IN  after["days seen"] =
                      IF CalendarDate(ctime(now))
                           # CalendarDate(before["last seen"])
                      THEN before["days seen"] + 1
                      ELSE before["days seen"]

\* C2: update_entry applied a second time to the same (proc, remoteIp, ctime)
\* leaves cmdlines, remoteAddresses, name and daysSeen as the first
\* application left them.
C2_UpdateIdempotent ==
    \A pid \in Pids, ip \in PublicIPs, now \in clock..MaxClock :
        LET proc == as_dict(pid)
        IN  proc.exe \in DOMAIN Processes =>
              LET once == update_entry(snitch, proc, ip, ctime(now))
                  twice == update_entry(once, proc, ip, ctime(now))
                  e1 == once["Processes"][proc.exe]
                  e2 == twice["Processes"][proc.exe]
              IN  /\ e2["cmdlines"] = e1["cmdlines"]
                  /\ e2["remote addresses"] = e1["remote addresses"]
                  /\ e2["name"] = e1["name"]
                  /\ e2["days seen"] = e1["days seen"]

\* An update has changed the name, the command lines, the addresses and the
\* day count of an entry, and the same update once more changes none of them.
C2_Witness ==
    \E pid \in Pids, ip \in PublicIPs :
        LET proc == as_dict(pid)
        IN  /\ proc.exe \in DOMAIN Processes
            /\ LET e0 == Processes[proc.exe]
                   e1 == UpdatedEntry(e0, proc, ip, e0["last seen"])
               IN  /\ IsSubstring(Concat(AlternativeInfix, proc.name),
                                  e0["name"])
                   /\ e0["cmdlines"][Len(e0["cmdlines"])]
                        = StrCmdline(proc.cmdline)
                   /\ Len(e0["cmdlines"]) = 2
                   /\ e0["remote addresses"][Len(e0["remote addresses"])] = ip
                   /\ Len(e0["remote addresses"]) = 2
                   /\ e0["days seen"] = 2
                   /\ e1 = e0

\* C3: a Create for a process name that is already an element of Names
\* appends the name followed by " (different executable location)", which
\* differs from the name; a Create for a name not yet in Names appends the
\* name itself; both leave every earlier element of Names as it was.
C3_NameCollision ==
    \A pid \in Pids, ip \in PublicIPs, now \in clock..MaxClock :
        LET proc == as_dict(pid)
        IN  proc.exe \notin DOMAIN Processes =>
              LET names == new_entry(snitch, proc, ip, ctime(now))["Names"]
                  slot == names[Len(names)]
              IN  /\ Len(names) = Len(Names) + 1
                  /\ IsPrefix(Names, names)
                  /\ IF InList(proc.name, Names)
                     THEN /\ slot = Concat(proc.name, DifferentLocationSuffix)
                          /\ slot # proc.name
                     ELSE slot = proc.name

\* Two executables were created under one name: the first slot is the name,
\* a later one the name with the suffix.
C3_Witness ==
    \E i, j \in 1..Len(Names) :
        /\ i < j
        /\ Names[j] = Concat(Names[i], DifferentLocationSuffix)
        /\ Cardinality(DOMAIN Processes) >= 2

\* C4: with the capture on, a tick that finds in the queue a candidate whose
\* local port is neither a port of the snapshot held at the start of the tick
\* nor the port of a new public connection of the tick's poll appends exactly
\* one "missed connection" entry for it, and the missed entries a tick
\* appends are for candidates of that tick only.
C4_MissedRecordedOnce ==
    [][ (ticks' = ticks + 1 /\ ~queue.is_none) =>
          LET added == Added(Errors, snitch'["Errors"])
              seen == known_ports(connections) \cup
                        {conn.laddr.port :
                           conn \in {c \in connections' \ connections :
                                       IsPublicConn(c)}}
              ports == {queue.items[i].laddr_port : i \in 1..Len(queue.items)}
          IN  /\ \A port \in ports \ seen :
                    Count(added, MissedError(ctime(clock'), port)) = 1
              /\ \A i \in 1..Len(added) :
                    IsMissedError(added[i]) =>
                      \E port \in ports :
                          added[i] = MissedError(ctime(clock'), port)
      ]_vars

\* C5: loop() is left only by sys.exit in the handler of a termination
\* signal: no exception leaves it, whatever fails.
C5_LoopLeftOnlyBySignal ==
    /\ phase \in {"init", "running", "exited"}
    /\ phase = "exited" => shutdown.writes >= 1

\* two candidate maps a tick can hand to poll: the empty one, and one with a
\* candidate on the port of a connection and a candidate on no connection's
PcapDicts ==
    { <<>>,
      << <<1, [direction |-> "outgoing", laddr_ip |-> "10.0.0.5",
               laddr_port |-> 1, raddr_ip |-> "93.184.216.34"]>>,
         <<6, [direction |-> "incoming", laddr_ip |-> "10.0.0.5",
               laddr_port |-> 6, raddr_ip |-> "8.8.8.8"]>> >> }

\* conn was created or updated by a poll at `now` that left the state s
Attributed(s, conn, now) ==
    LET proc == as_dict(conn.pid)
    IN  /\ proc.exe \in DOMAIN s["Processes"]
        /\ LET entry == s["Processes"][proc.exe]
           IN  /\ InList(conn.raddr.ip, entry["remote addresses"])
               /\ InList(StrCmdline(proc.cmdline), entry["cmdlines"])
               /\ IsSubstring(proc.name, entry["name"])
               /\ entry["last seen"] = now

\* C6: in every poll the run can make next, each new connection whose
\* resolution fails adds exactly one entry to Errors, for that connection;
\* every other new connection with a public remote address is created or
\* updated all the same; and poll returns the current snapshot.
C6_FailureIsolation ==
    ticks < MaxTicks =>
    \A current \in Snapshots, pcap_dict \in PcapDicts :
    \A order \in Orders(current \ connections),
       failed \in SUBSET {conn \in current \ connections : IsPublicConn(conn)} :
    \A r \in {poll(snitch, connections, pcap_dict, ctime(clock), current,
                    order, failed)} :
        LET added == Added(Errors, r.snitch["Errors"])
            public == {conn \in current \ connections : IsPublicConn(conn)}
        IN  /\ IsPrefix(Errors, r.snitch["Errors"])
            /\ \A conn \in failed :
                  Cardinality({i \in 1..Len(added) :
                                  /\ IsPollingError(added[i])
                                  /\ ErrorText(added[i]) = conn.repr}) = 1
            /\ Cardinality({i \in 1..Len(added) : IsPollingError(added[i])})
                 = Cardinality(failed)
            /\ \A conn \in public \ failed :
                  Attributed(r.snitch, conn, ctime(clock))
            /\ r.connections = current

\* One poll recorded a failure for one connection and attributed another.
C6_Witness ==
    \E i \in 1..Len(Errors), conn \in connections :
        /\ IsPollingError(Errors[i])
        /\ ErrorText(Errors[i]) # conn.repr
        /\ \E other \in connections : ErrorText(Errors[i]) = other.repr
        /\ IsPublicConn(conn)
        /\ Attributed(snitch, conn, ErrorTime(Errors[i]))

\* C7: no failure to store the state makes write() raise: a write that fails
\* leaves the loop running.
C7_WriteFailureNotFatal == phase # "OSError"

\* C8, as claimed: once the handler has flushed the state, the capture
\* subprocess, if there is one, has already been terminated.
C8_SubprocessTerminatedFirst ==
    (shutdown.writes >= 1 /\ pcap_proc # "None") => pcap_proc = "terminated"

\* C8, amended: the subprocess is terminated only after the handler's write
\* of the state has returned, and sys.exit is reached only after both the
\* write and, if there is a subprocess, its termination.
C8_FlushThenTerminateThenExit ==
    /\ shutdown.terminates >= 1 => shutdown.writes >= 1
    /\ phase = "exited" => shutdown.writes >= 1 /\ pcap_proc # "running"

\* A run with a capture subprocess has gone through the whole of terminate().
C8_Witness ==
    /\ phase = "exited"
    /\ pcap_proc = "terminated"
    /\ shutdown.writes >= 1

\* C9: whatever signals arrive, the handlers together flush the state once
\* and terminate the subprocess at most once.
C9_ShutdownOnce ==
    /\ shutdown.writes <= 1
    /\ shutdown.terminates <= 1
    /\ phase = "exited" => shutdown.writes = 1

\* the record s1 is kept by s2: nothing removed, nothing rewritten
Grows(s1, s2) ==
    /\ IsPrefix(s1["Errors"], s2["Errors"])
    /\ IsPrefix(s1["Executables"], s2["Executables"])
    /\ IsPrefix(s1["Names"], s2["Names"])
    /\ DOMAIN s1["Processes"] \subseteq DOMAIN s2["Processes"]
    /\ \A exe \in DOMAIN s1["Processes"] :
          LET e1 == s1["Processes"][exe]
              e2 == s2["Processes"][exe]
          IN  /\ IsPrefix(e1["cmdlines"], e2["cmdlines"])
              /\ IsPrefix(e1["remote addresses"], e2["remote addresses"])
              /\ e1["days seen"] <= e2["days seen"]
              /\ IsPrefix(e1["name"], e2["name"])
              /\ e1["first seen"] = e2["first seen"]

\* C10: every step keeps the record: Errors, Executables and Names only get
\* elements appended, no key leaves Processes, an entry's cmdlines and
\* remoteAddresses only get elements appended, its daysSeen never decreases,
\* its name only gets text appended and its firstSeen never changes.
C10_RecordOnlyGrows == [][Grows(snitch, snitch')]_vars

\* An entry has grown in every field that can grow, and so have the lists.
C10_Witness ==
    /\ Len(Names) >= 2
    /\ Len(snitch["Executables"]) >= 2
    /\ \E exe \in DOMAIN Processes :
          LET entry == Processes[exe]
          IN  /\ Len(entry["cmdlines"]) >= 2
              /\ Len(entry["remote addresses"]) >= 2
              /\ entry["days seen"] >= 2
              /\ IsSubstring(AlternativeInfix, entry["name"])
              /\ entry["first seen"] # entry["last seen"]

\* the connections of the step's snapshot that the previous one did not hold
NewConns == connections' \ connections

\* the new connections for which the step recorded a resolution failure
FailedConns ==
    {conn \in NewConns :
        \E i \in 1..Len(Added(Errors, snitch'["Errors"])) :
            LET e == Added(Errors, snitch'["Errors"])[i]
            IN  IsPollingError(e) /\ ErrorText(e) = conn.repr}

\* conn has a remote end and its address is none of the private ones
NonPrivateRemote(conn) ==
    conn.raddr # NoAddr /\ conn.raddr.ip \notin PrivateIPs

\* the executable paths the step observed making a connection to a
\* non-private address
ObservedExes ==
    {as_dict(conn.pid).exe :
        conn \in {c \in NewConns \ FailedConns : NonPrivateRemote(c)}}

Reloaded(s, file, dir) == read(write(s, file, dir, "ok").disk)

PollOne(conn, now) ==
    poll(snitch, connections, <<>>, ctime(now), connections \cup {conn},
         <<conn>>, {}).snitch

\* the entry is as the first connection of its executable left it
AfterFirstConnection(entry) ==
    /\ entry["days seen"] = 1
    /\ Len(entry["remote addresses"]) = 1
    /\ entry["first seen"] = entry["last seen"]

\* C13: from a fresh state the first public connection of an executable to
\* address a at t1 creates its entry with daysSeen = 1, remoteAddresses =
\* [a], firstSeen = lastSeen = t1; a later connection of the same executable
\* to another address b at t2, on another calendar day, leaves one entry for
\* it with daysSeen = 2, remoteAddresses = [a, b], lastSeen = t2, firstSeen
\* = t1, and adds nothing to Executables or Names.
C13_EndToEnd ==
    \A conn \in table \ connections, now \in clock..MaxClock :
        LET proc == as_dict(conn.pid)
            after == PollOne(conn, now)
        IN  /\ (IsPublicConn(conn) /\ DOMAIN Processes = {}) =>
                  /\ DOMAIN after["Processes"] = {proc.exe}
                  /\ after["Processes"][proc.exe]["days seen"] = 1
                  /\ after["Processes"][proc.exe]["remote addresses"]
                        = <<conn.raddr.ip>>
                  /\ after["Processes"][proc.exe]["first seen"] = ctime(now)
                  /\ after["Processes"][proc.exe]["last seen"] = ctime(now)
            /\ (/\ IsPublicConn(conn)
                /\ proc.exe \in DOMAIN Processes
                /\ AfterFirstConnection(Processes[proc.exe])
                /\ Processes[proc.exe]["remote addresses"][1] # conn.raddr.ip
                /\ CalendarDate(ctime(now))
                     # CalendarDate(Processes[proc.exe]["first seen"])) =>
                  LET before == Processes[proc.exe]
                      entry == after["Processes"][proc.exe]
                  IN  /\ DOMAIN after["Processes"] = DOMAIN Processes
                      /\ entry["days seen"] = 2
                      /\ entry["remote addresses"]
                            = <<before["remote addresses"][1], conn.raddr.ip>>
                      /\ entry["last seen"] = ctime(now)
                      /\ entry["first seen"] = before["first seen"]
                      /\ after["Executables"] = snitch["Executables"]
                      /\ after["Names"] = Names

\* C14: with N = write interval / polling interval, exactly N poller ticks
\* run between the start of the loop and the first periodic flush and between
\* two consecutive periodic flushes: a tick that leaves the loop running
\* ends with the flush and the reset of the counter if and only if it is the
\* N-th, the 2N-th, ... tick of the run.
C14_FlushEveryNTicks ==
    [][ (ticks' = ticks + 1 /\ phase' = "running") =>
          (counter' = 0 <=> ticks' % write_counter(snitch') = 0) ]_vars

\* s ends with the suffix of line 101
IsSuffixed(name) ==
    /\ Len(name) >= Len(DifferentLocationSuffix)
    /\ SubSeq(name, Len(name) - Len(DifferentLocationSuffix) + 1, Len(name))
         = DifferentLocationSuffix

\* what holds of a state between two operations: the two audit lists have
\* one length, every executable listed has its entry, and a slot of Names
\* that repeats an earlier one carries the suffix
OperationBoundary(s) ==
    /\ Len(s["Executables"]) = Len(s["Names"])
    /\ \A i \in 1..Len(s["Executables"]) :
          s["Executables"][i] \in DOMAIN s["Processes"]
    /\ \A i, j \in 1..Len(s["Names"]) :
          (i < j /\ s["Names"][j] = s["Names"][i]) =>
             IsSuffixed(s["Names"][j])

\* C15: the state that terminate() writes is never a partially applied
\* mutation, wherever in the run loop the signal arrives: it has
\* len(Executables) = len(Names), every element of Executables is a key of
\* Processes, and a Names slot that needs the suffix carries it; and so does
\* the file the write stored.
C15_TerminationWritesWholeState ==
    phase = "exited" =>
        /\ OperationBoundary(snitch)
        /\ (disk.exists /\ disk # TruncatedFile) =>
               OperationBoundary(read(disk))

\* poll at `now` when conn is the one new connection and its owner can or
\* cannot be looked up
PollOneOf(conn, now, fails) ==
    poll(snitch, connections, <<>>, ctime(now), connections \cup {conn},
         <<conn>>, IF fails THEN {conn} ELSE {}).snitch

\* C16: at every tick boundary len(Executables) = len(Names); a Create
\* appends exactly one element to each, at the same index, the path of the
\* new entry to Executables and its name, with or without the suffix, to
\* Names; an Update, a skipped connection and a failed resolution append to
\* neither.
C16_ParallelAuditTrails ==
    /\ Len(snitch["Executables"]) = Len(Names)
    /\ \A conn \in table \ connections, fails \in BOOLEAN :
          LET proc == as_dict(conn.pid)
              after == PollOneOf(conn, clock, fails)
              n == Len(Names)
          IN  IF /\ NonPrivateRemote(conn)
                 /\ ~fails
                 /\ proc.exe \notin DOMAIN Processes
              THEN /\ Len(after["Executables"]) = n + 1
                   /\ Len(after["Names"]) = n + 1
                   /\ IsPrefix(snitch["Executables"], after["Executables"])
                   /\ IsPrefix(Names, after["Names"])
                   /\ after["Executables"][n + 1] = proc.exe
                   /\ proc.exe \in DOMAIN after["Processes"]
                   /\ after["Names"][n + 1] \in
                         {proc.name, Concat(proc.name, DifferentLocationSuffix)}
              ELSE /\ after["Executables"] = snitch["Executables"]
                   /\ after["Names"] = Names

\* Two Creates have filled two slots of each list, the second name with the
\* suffix; a connection that would be an Update, one that would be skipped
\* and one that may fail are at hand.
C16_Witness ==
    /\ Len(snitch["Executables"]) = 2
    /\ IsSuffixed(Names[2])
    /\ snitch["Executables"][1] # snitch["Executables"][2]
    /\ \E conn \in table \ connections :
          /\ NonPrivateRemote(conn)
          /\ as_dict(conn.pid).exe \in DOMAIN Processes
    /\ \E conn \in table \ connections : ~NonPrivateRemote(conn)

\* new_entry invoked once and twice with one input
CreatedOnce(pid, ip, now) == new_entry(snitch, as_dict(pid), ip, ctime(now))

CreatedTwice(pid, ip, now) ==
    new_entry(CreatedOnce(pid, ip, now), as_dict(pid), ip, ctime(now))

\* C17, as claimed: new_entry invoked a second time with the same (proc,
\* remoteIp, ctime) leaves Executables, Names and Processes exactly as the
\* first invocation left them.
C17_CreateIdempotent ==
    \A pid \in Pids, ip \in PublicIPs, now \in clock..MaxClock :
        /\ CreatedTwice(pid, ip, now)["Executables"]
             = CreatedOnce(pid, ip, now)["Executables"]
        /\ CreatedTwice(pid, ip, now)["Names"]
             = CreatedOnce(pid, ip, now)["Names"]
        /\ CreatedTwice(pid, ip, now)["Processes"]
             = CreatedOnce(pid, ip, now)["Processes"]

\* C17, amended: the second invocation leaves Processes exactly as the
\* first left it, and appends the path once more to Executables and the
\* name with the suffix once more to Names.
C17_CreateTwiceRelists ==
    \A pid \in Pids, ip \in PublicIPs, now \in clock..MaxClock :
        LET proc == as_dict(pid)
            once == CreatedOnce(pid, ip, now)
            twice == CreatedTwice(pid, ip, now)
        IN  /\ twice["Processes"] = once["Processes"]
            /\ twice["Executables"] = Append(once["Executables"], proc.exe)
            /\ twice["Names"] =
                  Append(once["Names"],
                         Concat(proc.name, DifferentLocationSuffix))
            /\ twice["Errors"] = once["Errors"]

\* The state is as a Create left it: the last slots of the lists and the
\* entry are those of one input, and the same Create once more relists it.
C17_Witness ==
    \E pid \in Pids, ip \in PublicIPs :
        LET proc == as_dict(pid)
            n == Len(snitch["Executables"])
        IN  /\ n >= 2
            /\ snitch["Executables"][n] = proc.exe
            /\ proc.exe \in DOMAIN Processes
            /\ Processes[proc.exe]
                 = FreshEntry(proc, ip, Processes[proc.exe]["first seen"])
            /\ Count(CreatedOnce(pid, ip, clock)["Executables"], proc.exe) = 2

\* a candidate map with one outgoing candidate on each of the local ports
RECURSIVE CandidatesOn(_)
CandidatesOn(ports) ==
    IF ports = <<>>
    THEN <<>>
    ELSE DictPut(CandidatesOn(Tail(ports)), Head(ports),
                 [direction |-> "outgoing", laddr_ip |-> "10.0.0.5",
                  laddr_port |-> Head(ports), raddr_ip |-> "8.8.8.8"])

\* C18: a new connection that has no remote address, or whose remote address
\* is private or loopback, leaves Processes, Executables, Names and Errors
\* unchanged and removes nothing from the candidate map, also a candidate on
\* its own local port; and no entry's remoteAddresses contains a private or
\* loopback address.
C18_OnlyPublicAttributed ==
    /\ \A conn \in {c \in table \ connections : ~NonPrivateRemote(c)}
                     \cup {LoopbackConn},
          proc \in {InitialProc} \cup {as_dict(pid) : pid \in Pids} :
          LET st == [snitch |-> snitch,
                     pcap_dict |-> CandidatesOn(<<1, 4, 5, 7>>),
                     proc |-> proc]
              after == poll_conn(st, conn, {}, ctime(clock))
          IN  /\ after.snitch["Processes"] = Processes
              /\ after.snitch["Executables"] = snitch["Executables"]
              /\ after.snitch["Names"] = Names
              /\ after.snitch["Errors"] = Errors
              /\ after.pcap_dict = st.pcap_dict
              /\ Len(after.pcap_dict) = 4
    /\ \A exe \in DOMAIN Processes :
          \A i \in 1..Len(Processes[exe]["remote addresses"]) :
              Processes[exe]["remote addresses"][i] \notin PrivateIPs

\* The snapshot holds a listening socket and a socket with a private remote
\* end next to an attributed one, and the one executable that has an entry
\* is the owner of the private one.
C18_Witness ==
    /\ \E conn \in connections : conn.raddr = NoAddr
    /\ \E conn \in connections :
          /\ conn.raddr # NoAddr
          /\ conn.raddr.ip \in PrivateIPs
          /\ as_dict(conn.pid).exe \in DOMAIN Processes
          /\ Processes[as_dict(conn.pid).exe]["remote addresses"]
               = <<"93.184.216.34">>

\* C19: a tick dispatches to attribution the connections of its snapshot
\* that the snapshot of the tick before (none before the first tick) did not
\* hold, and no other: every new connection with a public remote end is
\* attributed or has its failure recorded, and an entry changes or appears
\* only for the executable of a new connection, so a connection that stays
\* in the table is attributed in the tick in which it appears and not again
\* while it stays.
C19_SnapshotDiffing ==
    [][ ticks' = ticks + 1 =>
          /\ \A conn \in NewConns \ FailedConns :
                NonPrivateRemote(conn) =>
                   Attributed(snitch', conn, ctime(clock'))
          /\ \A exe \in DOMAIN snitch'["Processes"] \ ObservedExes :
                /\ exe \in DOMAIN Processes
                /\ snitch'["Processes"][exe] = Processes[exe]
          /\ \A i \in 1..Len(Added(Errors, snitch'["Errors"])) :
                \E conn \in NewConns :
                    ErrorText(Added(Errors, snitch'["Errors"])[i]) = conn.repr
          /\ ticks = 0 => NewConns = connections'
      ]_vars

\* A connection attributed by the first tick has stayed in the snapshot of
\* the second, taken later, and its entry is as the first tick left it.
C19_Witness ==
    /\ ticks = 2
    /\ clock > 0
    /\ \E conn \in connections :
          LET exe == as_dict(conn.pid).exe
          IN  /\ NonPrivateRemote(conn)
              /\ exe \in DOMAIN Processes
              /\ Processes[exe]["last seen"] = ctime(0)
              /\ Processes[exe]["days seen"] = 1
              /\ Processes[exe]["remote addresses"] = <<conn.raddr.ip>>

\* what follows the raw description in the Errors entry of a failed
\* resolution
ErrorSuffix(e) == e[Len(ctime(0)) + 3]

\* C20: the Errors entry of a failing connection is the tick's timestamp and
\* the connection's raw description, followed by the pid only when the
\* resolution of that same connection produced the process attributes and
\* by "{process no longer exists}" otherwise.  A lookup that fails produces
\* no attributes, so every entry a tick records for a failed lookup ends
\* with the fixed text, whatever earlier connections of the tick resolved.
C20_DiagnosticContent ==
    [][ ticks' = ticks + 1 =>
          \A i \in 1..Len(Added(Errors, snitch'["Errors"])) :
              LET e == Added(Errors, snitch'["Errors"])[i]
              IN  IsPollingError(e) =>
                    /\ ErrorTime(e) = ctime(clock')
                    /\ \E conn \in NewConns : ErrorText(e) = conn.repr
                    /\ ErrorSuffix(e) = "{process no longer exists}"
      ]_vars

====
